---- MODULE Spec2Model ----
(***************************************************************************)
(* Model of the health-report scoring core and of the standards loader    *)
(* (health_report_module.py) and of the response extractor (app.py) of     *)
(* health-emo-cat-guide.                                                   *)
(***************************************************************************)
EXTENDS Integers, Sequences, FiniteSets, TLC

VARIABLES HEALTH_STANDARDS, vital_stats, gender, pc, result, base, retest,
          text, extracted, calls,
          file, HEALTH_ALIASES, log,
          raw_value, numeric_value,
          upload, analysis, health_reports

scoreVars == <<HEALTH_STANDARDS, vital_stats, gender, result, base, retest>>

extractVars == <<text, extracted>>

loadVars == <<file, HEALTH_ALIASES, log>>

normVars == <<raw_value, numeric_value>>

uploadVars == <<upload, analysis, health_reports>>

vars == <<scoreVars, extractVars, loadVars, normVars, uploadVars, calls, pc>>

(***************************************************************************)
(* Raw measurement values: a Python number, a Python string or None.       *)
(***************************************************************************)
Num(n) == [t |-> "num", n |-> n, s |-> ""]
Str(s) == [t |-> "str", n |-> 0, s |-> s]
NoneVal == [t |-> "none", n |-> 0, s |-> ""]

\* A JSON array and a JSON object as raw values.
ListVal == [t |-> "list", n |-> 0, s |-> ""]
DictVal == [t |-> "dict", n |-> 0, s |-> ""]

\* The result of get_numeric_value: a number, or None (ok = FALSE).
Some(n) == [ok |-> TRUE, n |-> n]
Nothing == [ok |-> FALSE, n |-> 0]

\* str.strip().lower() on the strings the model feeds in.
StripLower(s) ==
    CASE s = " Negative " -> "negative"
      [] s = "NEGATIVE" -> "negative"
      [] s = " (-) " -> "(-)"
      [] s = " 105 " -> "105"
      [] s = " ++ " -> "++"
      [] s = " GLU " -> "glu"
      [] s = "Glu" -> "glu"
      [] s = "Sugar" -> "sugar"
      [] s = "ABC" -> "abc"
      [] OTHER -> s

\* float(str): the decimal strings of the model parse, everything else raises
\* ValueError (float() itself strips surrounding whitespace).
FloatOfStr(s) ==
    CASE StripLower(s) = "105" -> Some(105)
      [] StripLower(s) = "135" -> Some(135)
      [] StripLower(s) = "165" -> Some(165)
      [] StripLower(s) = "85" -> Some(85)
      [] OTHER -> Nothing

get_numeric_value(val) ==
    IF val.t = "num" THEN Some(val.n)
    ELSE IF val.t = "str" /\ StripLower(val.s) \in {"負", "negative", "(-)", "-"}
        THEN Some(0)
    ELSE IF val.t = "str" /\ StripLower(val.s) \in {"+/-", "+"} THEN Some(1)
    ELSE IF val.t = "str" /\ StripLower(val.s) \in {"++", "+++"} THEN Some(2)
    ELSE IF val.t = "str" /\ StripLower(val.s) = "++++" THEN Some(3)
    ELSE IF val.t = "str" THEN FloatOfStr(val.s)
    ELSE Nothing

\* The exception float(val) raises, "" when it returns a number.
FloatError(val) ==
    IF val.t = "num" THEN ""
    ELSE IF val.t = "str" THEN (IF FloatOfStr(val.s).ok THEN "" ELSE "ValueError")
    ELSE "TypeError"

\* except (ValueError, TypeError): return None
CaughtValueError == {"ValueError"}

Caught == {"ValueError", "TypeError"}

\* Whether the call leaves get_numeric_value by an exception: a number and a
\* token return before float(val) is reached.
Escapes(val) ==
    /\ val.t # "num"
    /\ ~(val.t = "str" /\ StripLower(val.s) \in {"負", "negative", "(-)", "-", "+/-",
                                                 "+", "++", "+++", "++++"})
    /\ FloatError(val) \notin Caught \cup {""}

(***************************************************************************)
(* The Standards Store.  A reference expression is kept by its shape:      *)
(* "lower-upper", "<x", ">x", a marker containing "(-)", or no expression. *)
(***************************************************************************)
RefRange(lo, hi) == [kind |-> "range", lo |-> lo, hi |-> hi]
RefLt(x) == [kind |-> "lt", lo |-> 0, hi |-> x]
RefGt(x) == [kind |-> "gt", lo |-> x, hi |-> 0]
RefNeg == [kind |-> "neg", lo |-> 0, hi |-> 0]
RefEmpty == [kind |-> "empty", lo |-> 0, hi |-> 0]
RefAbsent == [kind |-> "absent", lo |-> 0, hi |-> 0]

\* One grade band: label -> [lower, upper].
Band(g, lo, hi) == [g |-> g, lo |-> lo, hi |-> hi]

Entry(name, ref, refM, refF, gradesM, gradesF) ==
    [present |-> TRUE, name |-> name, reference_value |-> ref,
     reference_value_male |-> refM, reference_value_female |-> refF,
     grades_male |-> gradesM, grades_female |-> gradesF]

NoEntry ==
    [present |-> FALSE, name |-> "", reference_value |-> RefAbsent,
     reference_value_male |-> RefAbsent, reference_value_female |-> RefAbsent,
     grades_male |-> <<>>, grades_female |-> <<>>]

\* The metrics with hard-coded thresholds (lines 301-333).
LegacyMetrics == {"glucose", "ldl_cholesterol", "bmi", "alt", "ast", "creatinine",
                  "uric_acid", "urine_protein"}

Keys == {"glucose", "ldl_cholesterol", "blood_pressure_systolic",
         "blood_pressure_diastolic", "hbsag", "bmi"} \cup LegacyMetrics

(***************************************************************************)
(* calculate_health_score, part 1: the per-metric loop.                    *)
(***************************************************************************)
\* gender.lower() if gender in ['male', 'female'] else 'female'
GenderKeyAnyCase(g) ==
    IF g \in {"male", "Male"} THEN "male" ELSE "female"

GenderKey(g) == IF g \in {"male", "female"} THEN g ELSE "female"

\* standard_info.get(ref_value_key, "").strip() with the per-gender key when
\* the entry has it and "reference_value" otherwise.
RefValue(info, gender_key) ==
    LET own == IF gender_key = "male" THEN info.reference_value_male
               ELSE info.reference_value_female
    IN  IF own.kind # "absent" THEN own
        ELSE IF info.reference_value.kind # "absent" THEN info.reference_value
        ELSE RefEmpty

\* standard_info.get('grades', {}).get(gender_key, {})
GenderGrades(info, gender_key) ==
    IF gender_key = "male" THEN info.grades_male ELSE info.grades_female

\* The out-of-range check of the reference expression: "A" or "" (None).
\* An expression holding a hyphen is split at it and both parts are parsed as
\* floats, which raises for the expected-negative marker.
RangeRaises(ref) == ref.kind = "neg"

RangeGrade(ref, nv) ==
    IF ref.kind = "range" THEN (IF ~(ref.lo <= nv /\ nv <= ref.hi) THEN "A" ELSE "")
    ELSE IF ref.kind = "lt" THEN (IF nv >= ref.hi THEN "A" ELSE "")
    ELSE IF ref.kind = "gt" THEN (IF nv <= ref.lo THEN "A" ELSE "")
    ELSE ""

\* for g, boundaries in gender_grades.items(): first band holding the value,
\* 0 when none does.
RECURSIVE FirstBandFrom(_, _, _)
FirstBandFrom(bands, nv, i) ==
    IF i > Len(bands) THEN 0
    ELSE IF bands[i].lo <= nv /\ nv <= bands[i].hi THEN i
    ELSE FirstBandFrom(bands, nv, i + 1)

BandGrade(bands, nv, grade) ==
    LET i == FirstBandFrom(bands, nv, 1)
    IN  IF i = 0 THEN grade ELSE bands[i].g

\* Three tiers of one legacy metric; creatinine is held in tenths.
Tier(nv, a, b, c, strictB) ==
    IF nv >= a
    THEN IF strictB
         THEN (IF nv < b THEN "A" ELSE IF nv < c THEN "B" ELSE "C")
         ELSE (IF nv <= b THEN "A" ELSE IF nv <= c THEN "B" ELSE "C")
    ELSE ""

LegacyGrade(key, nv) ==
    CASE key = "glucose" -> Tier(nv, 100, 126, 180, FALSE)
      [] key = "ldl_cholesterol" -> Tier(nv, 130, 160, 200, FALSE)
      [] key = "bmi" -> Tier(nv, 24, 27, 30, TRUE)
      [] key = "alt" -> Tier(nv, 41, 80, 200, FALSE)
      [] key = "ast" -> Tier(nv, 31, 80, 200, FALSE)
      [] key = "creatinine" -> Tier(nv, 13, 20, 30, FALSE)
      [] key = "uric_acid" -> Tier(nv, 7, 8, 10, FALSE)
      [] key = "urine_protein" ->
            (IF nv = 1 THEN "A" ELSE IF nv = 2 THEN "B"
             ELSE IF nv = 3 THEN "C" ELSE "")
      [] OTHER -> ""

\* The quantitative grade of one metric (lines 273-333): the reference check
\* first, then the gender bands, else the legacy thresholds.
GradeLegacyFirst(key, info, gender_key, nv) ==
    LET grade == RangeGrade(RefValue(info, gender_key), nv)
        bands == GenderGrades(info, gender_key)
    IN  IF LegacyGrade(key, nv) # "" THEN LegacyGrade(key, nv)
        ELSE IF Len(bands) > 0 THEN BandGrade(bands, nv, grade)
        ELSE grade

GradeOf(key, info, gender_key, nv) ==
    LET grade == RangeGrade(RefValue(info, gender_key), nv)
        bands == GenderGrades(info, gender_key)
    IN  IF Len(bands) > 0 THEN BandGrade(bands, nv, grade)
        ELSE IF grade = "" THEN LegacyGrade(key, nv)
        ELSE grade

Deduction(grade) ==
    CASE grade = "A" -> 5 [] grade = "B" -> 10 [] grade = "C" -> 15 [] OTHER -> 0

\* One warning; the text is kept by its parts.
Warning(kind, name, grade, raw, a, b) ==
    [kind |-> kind, name |-> name, grade |-> grade, raw |-> raw, a |-> a, b |-> b]

\* The running state of one call: score and warnings, whether an exception
\* left the function, and the grade given to each metric the loop graded.
Acc0 == [status |-> "running", score |-> 100, warnings |-> <<>>, graded |-> <<>>,
         bp |-> 0, high_count |-> 0]

DeductPrepend(acc, d, w) ==
    [acc EXCEPT !.score = @ - d, !.warnings = <<w>> \o @]

DeductUnwarned(acc, d, w) ==
    [acc EXCEPT !.score = @ - d]

Deduct(acc, d, w) ==
    [acc EXCEPT !.score = @ - d, !.warnings = Append(@, w)]

\* The body of one loop iteration once the entry and the value are there
\* (lines 258-344).
GradeMetric(acc, key, value, info, g) ==
    LET gender_key == GenderKey(g)
        ref == RefValue(info, gender_key)
        numeric == get_numeric_value(value)
    IN  IF ref.kind = "neg" /\ value # Str("(-)")
            THEN [Deduct(acc, 5, Warning("range", info.name, "", value, 0, 0))
                    EXCEPT !.graded = Append(@, [key |-> key, grade |-> "Q"])]
        ELSE IF ~numeric.ok THEN acc
        ELSE IF RangeRaises(ref) THEN [acc EXCEPT !.status = "raised"]
        ELSE LET grade == GradeOf(key, info, gender_key, numeric.n)
                 seen == [acc EXCEPT !.graded =
                            Append(@, [key |-> key, grade |-> grade])]
             IN  IF grade \in {"A", "B", "C"}
                 THEN Deduct(seen, Deduction(grade),
                             Warning("grade", info.name, grade, value, 0, 0))
                 ELSE seen

\* One iteration of "for key, value in vital_stats.items()" (lines 253-256).
ProcessMetricNoneGraded(acc, key, value, store, g) ==
    IF acc.status # "running" THEN acc
    ELSE IF ~store[key].present THEN acc
    ELSE GradeMetric(acc, key, value, store[key], g)

ProcessMetric(acc, key, value, store, g) ==
    IF acc.status # "running" THEN acc
    ELSE IF value.t = "none" \/ ~store[key].present THEN acc
    ELSE GradeMetric(acc, key, value, store[key], g)

RECURSIVE LoopFrom(_, _, _, _, _)
LoopFrom(acc, stats, store, g, i) ==
    IF i > Len(stats) THEN acc
    ELSE LoopFrom(ProcessMetric(acc, stats[i][1], stats[i][2], store, g),
                  stats, store, g, i + 1)

(***************************************************************************)
(* calculate_health_score, part 2: blood pressure, the compound-risk       *)
(* count and the floor.                                                    *)
(***************************************************************************)
\* vital_stats.get(key): the value stored under key, None when it is absent.
RECURSIVE GetFrom(_, _, _)
GetFrom(stats, key, i) ==
    IF i > Len(stats) THEN NoneVal
    ELSE IF stats[i][1] = key THEN stats[i][2]
    ELSE GetFrom(stats, key, i + 1)

Get(stats, key) == GetFrom(stats, key, 1)

\* The tier of one reading, or of both, as the grade letter ("" for none).
BothTierAnd(sys, dia) ==
    IF sys >= 160 /\ dia >= 100 THEN "C"
    ELSE IF sys >= 140 /\ dia >= 90 THEN "B"
    ELSE IF sys >= 130 /\ dia >= 80 THEN "A"
    ELSE ""

BothTierAscending(sys, dia) ==
    IF sys >= 130 \/ dia >= 80 THEN "A"
    ELSE IF sys >= 140 \/ dia >= 90 THEN "B"
    ELSE IF sys >= 160 \/ dia >= 100 THEN "C"
    ELSE ""

BothTier(sys, dia) ==
    IF sys >= 160 \/ dia >= 100 THEN "C"
    ELSE IF sys >= 140 \/ dia >= 90 THEN "B"
    ELSE IF sys >= 130 \/ dia >= 80 THEN "A"
    ELSE ""

SystolicTier(sys) ==
    IF sys >= 160 THEN "C" ELSE IF sys >= 140 THEN "B"
    ELSE IF sys >= 130 THEN "A" ELSE ""

DiastolicTier(dia) ==
    IF dia >= 100 THEN "C" ELSE IF dia >= 90 THEN "B"
    ELSE IF dia >= 80 THEN "A" ELSE ""

\* "Handle blood pressure separately" (lines 346-378).
BloodPressure(acc, stats) ==
    LET systolic_val == get_numeric_value(Get(stats, "blood_pressure_systolic"))
        diastolic_val == get_numeric_value(Get(stats, "blood_pressure_diastolic"))
        tier == IF systolic_val.ok /\ diastolic_val.ok
                    THEN BothTier(systolic_val.n, diastolic_val.n)
                ELSE IF systolic_val.ok THEN SystolicTier(systolic_val.n)
                ELSE IF diastolic_val.ok THEN DiastolicTier(diastolic_val.n)
                ELSE ""
        kind == IF systolic_val.ok /\ diastolic_val.ok THEN "bp"
                ELSE IF systolic_val.ok THEN "bp_systolic" ELSE "bp_diastolic"
    IN  IF acc.status # "running" THEN acc
        ELSE IF tier = "" THEN acc
        ELSE [Deduct(acc, Deduction(tier),
                     Warning(kind, "", tier, NoneVal, systolic_val.n, diastolic_val.n))
                EXCEPT !.bp = Deduction(tier)]

\* The number of elevated risk factors (lines 382-390).
AtLeast(stats, key, bound) ==
    LET v == get_numeric_value(Get(stats, key)) IN v.ok /\ v.n >= bound

HighCount(stats) ==
    (IF AtLeast(stats, "glucose", 100) THEN 1 ELSE 0)
    + (IF AtLeast(stats, "ldl_cholesterol", 130) THEN 1 ELSE 0)
    + (IF AtLeast(stats, "blood_pressure_systolic", 130)
          \/ AtLeast(stats, "blood_pressure_diastolic", 80) THEN 1 ELSE 0)

\* The extra deduction of the compound-risk count (lines 392-400).
ExtraDeduction(high_count) ==
    CASE high_count = 1 -> 5 [] high_count = 2 -> 10 [] high_count = 3 -> 15
      [] OTHER -> 0

CompoundRisk(acc, stats) ==
    LET high_count == HighCount(stats)
    IN  IF acc.status # "running" THEN acc
        ELSE IF high_count = 0 THEN acc
        ELSE [Deduct(acc, ExtraDeduction(high_count),
                     Warning("high", "", "", NoneVal, high_count, 0))
                EXCEPT !.high_count = high_count]

\* if score < 1: score = 1; return score, warnings
NoFloor(acc) ==
    IF acc.status # "running" THEN acc ELSE [acc EXCEPT !.status = "returned"]

Floor(acc) ==
    IF acc.status # "running" THEN acc
    ELSE [acc EXCEPT !.status = "returned",
                     !.score = IF @ < 1 THEN 1 ELSE @]

calculate_health_score(stats, g, store) ==
    Floor(CompoundRisk(BloodPressure(LoopFrom(Acc0, stats, store, g, 1), stats),
                       stats))

(***************************************************************************)
(* extract_json_from_response (app.py).  A reply is a sequence of pieces   *)
(* of text; each piece stands for the characters given by Chars.           *)
(***************************************************************************)
\* "{" and "}" are the braces, "m" a member "a":1, "k" a key and its colon
\* "b":, "t" the literal true, "n" the literal null, "x" prose, "w" white
\* space, "f" a fence of three backticks and "j" the word json.  The pieces
\* "o", "e", "F" and "E" are the object of one member, the empty object, the
\* labelled fence and the bare fence.
Pieces == {"{", "}", "o", "e", "k", "t", "n", "x", "w", "F", "E"}

Chars(piece) ==
    CASE piece = "o" -> <<"{", "m", "}">>
      [] piece = "e" -> <<"{", "}">>
      [] piece = "F" -> <<"f", "j">>
      [] piece = "E" -> <<"f">>
      [] OTHER -> <<piece>>

RECURSIVE Expand(_)
Expand(reply) ==
    IF reply = <<>> THEN <<>> ELSE Chars(Head(reply)) \o Expand(Tail(reply))

\* str.strip() and the white space JSON allows between its tokens.
RECURSIVE NoSpace(_)
NoSpace(t) ==
    IF t = <<>> THEN <<>>
    ELSE IF Head(t) = "w" THEN NoSpace(Tail(t))
    ELSE <<Head(t)>> \o NoSpace(Tail(t))

\* The index after the JSON value that starts at t[i]; 0 when none does.
RECURSIVE ValueEnd(_, _)
ValueEnd(t, i) ==
    IF i > Len(t) THEN 0
    ELSE IF t[i] \in {"t", "n"} THEN i + 1
    ELSE IF t[i] # "{" \/ i + 1 > Len(t) THEN 0
    ELSE IF t[i + 1] = "}" THEN i + 2
    ELSE IF t[i + 1] = "m"
        THEN (IF i + 2 <= Len(t) /\ t[i + 2] = "}" THEN i + 3 ELSE 0)
    ELSE IF t[i + 1] = "k"
        THEN LET j == ValueEnd(t, i + 2)
             IN  IF j # 0 /\ j <= Len(t) /\ t[j] = "}" THEN j + 1 ELSE 0
    ELSE 0

\* json.loads: the document read, or a failure (the exception the caller
\* swallows).  A document is kept as its text without white space.
Failed == [ok |-> FALSE, v |-> <<>>]

\* None, returned as a value; the literal null reads as None.
None == <<>>

json_loads(t) ==
    LET doc == NoSpace(t)
    IN  IF doc # <<>> /\ ValueEnd(doc, 1) = Len(doc) + 1
        THEN [ok |-> TRUE, v |-> IF doc = <<"n">> THEN None ELSE doc]
        ELSE Failed

\* The index after the white space that starts at t[i].
RECURSIVE SkipSpace(_, _)
SkipSpace(t, i) ==
    IF i <= Len(t) /\ t[i] = "w" THEN SkipSpace(t, i + 1) ELSE i

\* The pattern fence json \s* ( \{ .*? \} ) \s* fence: the end of the group
\* that starts at p,
\* the first closing brace from q on that white space and a fence follow.
RECURSIVE LazyEnd(_, _)
LazyEnd(t, q) ==
    IF q > Len(t) THEN 0
    ELSE IF t[q] = "}" /\ SkipSpace(t, q + 1) <= Len(t)
                      /\ t[SkipSpace(t, q + 1)] = "f" THEN q
    ELSE LazyEnd(t, q + 1)

\* The group of a match that starts at the fence t[i]; <<>> when none does.
FenceAt(t, i) ==
    IF i + 1 <= Len(t) /\ t[i] = "f" /\ t[i + 1] = "j"
    THEN LET p == SkipSpace(t, i + 2)
         IN  IF p <= Len(t) /\ t[p] = "{" /\ LazyEnd(t, p + 1) # 0
             THEN SubSeq(t, p, LazyEnd(t, p + 1))
             ELSE <<>>
    ELSE <<>>

\* re.search: the leftmost match.
RECURSIVE FenceFrom(_, _)
FenceFrom(t, i) ==
    IF i > Len(t) THEN <<>>
    ELSE IF FenceAt(t, i) # <<>> THEN FenceAt(t, i)
    ELSE FenceFrom(t, i + 1)

\* The pattern \{ [^{}]* (?: \{ [^{}]* \} [^{}]* )* \}: the closing brace of the span opened
\* before t[j], inner telling whether an inner brace is open; 0 when the
\* span does not close or nests deeper.
RECURSIVE SpanEnd(_, _, _)
SpanEnd(t, j, inner) ==
    IF j > Len(t) THEN 0
    ELSE IF t[j] = "{" THEN (IF inner THEN 0 ELSE SpanEnd(t, j + 1, TRUE))
    ELSE IF t[j] = "}" THEN (IF inner THEN SpanEnd(t, j + 1, FALSE) ELSE j)
    ELSE SpanEnd(t, j + 1, inner)

RECURSIVE SpanFrom(_, _)
SpanFrom(t, i) ==
    IF i > Len(t) THEN <<>>
    ELSE IF t[i] = "{" /\ SpanEnd(t, i + 1, FALSE) # 0
        THEN SubSeq(t, i, SpanEnd(t, i + 1, FALSE))
    ELSE SpanFrom(t, i + 1)

\* The three strategies: a match that does not parse counts as a failure.
WholeText(t) == json_loads(t)

FencedBlock(t) ==
    IF FenceFrom(t, 1) = <<>> THEN Failed ELSE json_loads(FenceFrom(t, 1))

BraceSpan(t) ==
    IF SpanFrom(t, 1) = <<>> THEN Failed ELSE json_loads(SpanFrom(t, 1))

Answer(by, v) == [status |-> "done", by |-> by, value |-> v]

extract_Unparsed(reply) ==
    LET t == Expand(reply)
    IN  IF t = <<>> THEN Answer("", None)
        ELSE IF WholeText(t).ok THEN Answer("a", WholeText(t).v)
        ELSE IF FencedBlock(t).ok THEN Answer("b", FencedBlock(t).v)
        ELSE IF SpanFrom(t, 1) # <<>> THEN Answer("c", SpanFrom(t, 1))
        ELSE Answer("", None)

extract_SpanBeforeFence(reply) ==
    LET t == Expand(reply)
    IN  IF t = <<>> THEN Answer("", None)
        ELSE IF WholeText(t).ok THEN Answer("a", WholeText(t).v)
        ELSE IF BraceSpan(t).ok THEN Answer("c", BraceSpan(t).v)
        ELSE IF FencedBlock(t).ok THEN Answer("b", FencedBlock(t).v)
        ELSE Answer("", None)

extract_json_from_response(reply) ==
    LET t == Expand(reply)
    IN  IF t = <<>> THEN Answer("", None)
        ELSE IF WholeText(t).ok THEN Answer("a", WholeText(t).v)
        ELSE IF FencedBlock(t).ok THEN Answer("b", FencedBlock(t).v)
        ELSE IF BraceSpan(t).ok THEN Answer("c", BraceSpan(t).v)
        ELSE Answer("", None)

NoExtract == [status |-> "none", by |-> "", value |-> None]

(***************************************************************************)
(* Configurations the Standards Store is loaded from.                      *)
(***************************************************************************)
Plain(name, ref) == Entry(name, ref, RefAbsent, RefAbsent, <<>>, <<>>)

EmptyStore == [k \in Keys |-> NoEntry]

\* Reference expressions only; no entry for the blood-pressure readings.
PlainStore ==
    [k \in Keys |->
        CASE k = "glucose" -> Plain("Glucose", RefRange(70, 99))
          [] k = "ldl_cholesterol" ->
                Entry("LDL", RefLt(130), RefLt(100), RefAbsent, <<>>, <<>>)
          [] k = "hbsag" -> Plain("HBsAg", RefNeg)
          [] k = "bmi" -> Plain("BMI", RefRange(18, 24))
          [] OTHER -> NoEntry]

\* Grade bands per gender, with gaps, an overlap and a label that is no grade.
BandStore ==
    [k \in Keys |->
        CASE k = "glucose" ->
                Entry("Glucose", RefRange(70, 99), RefAbsent, RefAbsent,
                      <<Band("C", 100, 300), Band("A", 100, 125)>>,
                      <<Band("A", 100, 125), Band("B", 126, 199)>>)
          [] k = "ldl_cholesterol" ->
                Entry("LDL", RefLt(130), RefAbsent, RefAbsent,
                      <<Band("C", 130, 400)>>, <<Band("C", 130, 400)>>)
          [] k = "blood_pressure_systolic" ->
                Entry("Systolic", RefLt(130), RefAbsent, RefAbsent,
                      <<Band("A", 130, 139), Band("B", 140, 159), Band("C", 160, 300)>>,
                      <<Band("A", 130, 139), Band("B", 140, 159), Band("C", 160, 300)>>)
          [] k = "blood_pressure_diastolic" ->
                Entry("Diastolic", RefLt(80), RefAbsent, RefAbsent,
                      <<Band("A", 80, 89), Band("B", 90, 99), Band("C", 100, 200)>>,
                      <<Band("A", 80, 89), Band("B", 90, 99), Band("C", 100, 200)>>)
          [] k = "hbsag" -> Plain("HBsAg", RefNeg)
          [] k = "bmi" ->
                Entry("BMI", RefAbsent, RefAbsent, RefAbsent,
                      <<Band("normal", 18, 24), Band("C", 30, 60)>>,
                      <<Band("normal", 18, 24), Band("C", 30, 60)>>)
          [] OTHER -> NoEntry]

\* Entries without a reference expression (the legacy thresholds decide), and a
\* plain reference expression for the systolic reading.
LegacyStore ==
    [k \in Keys |->
        CASE k = "glucose" -> Plain("Glucose", RefAbsent)
          [] k = "ldl_cholesterol" -> Plain("LDL", RefEmpty)
          [] k = "bmi" -> Plain("BMI", RefGt(18))
          [] k = "blood_pressure_systolic" -> Plain("Systolic", RefLt(130))
          [] OTHER -> NoEntry]

Stores == {EmptyStore, PlainStore, BandStore, LegacyStore}

\* An entry for every legacy metric, none with a reference expression or
\* grade bands: the hard-coded thresholds decide.  The display name is the key.
FallbackStore ==
    [k \in Keys |-> IF k \in LegacyMetrics THEN Plain(k, RefAbsent) ELSE NoEntry]

Genders == {"male", "female", "Male", "other", "", "None"}

(***************************************************************************)
(* load_health_standards.  The file at HEALTH_STANDARDS_FILE is missing,   *)
(* is no JSON, is a JSON array, or is a JSON object; the object has no     *)
(* "health_standards" member or has one, a mapping whose entries are kept  *)
(* in the order the file declares them.                                    *)
(***************************************************************************)
Document(kind, has_standards, entries) ==
    [kind |-> kind, has_standards |-> has_standards, entries |-> entries]

Unread == Document("unread", FALSE, <<>>)

\* The "aliases" member of an entry: absent, a string, or a list of values.
AliasesAbsent == [kind |-> "absent", items |-> <<>>]
AliasesString == [kind |-> "string", items |-> <<>>]
AliasList(items) == [kind |-> "list", items |-> items]

Declared(key, info, aliases) == [key |-> key, info |-> info, aliases |-> aliases]

\* HEALTH_ALIASES = {} and HEALTH_ALIASES[alias] = key
NoAliases == [a \in {} |-> ""]

Put(aliases, alias, key) ==
    [a \in (DOMAIN aliases) \cup {alias} |-> IF a = alias THEN key ELSE aliases[a]]

\* The globals and the log while load_health_standards runs, and whether an
\* exception has left the try block.
Loading(standards, aliases) ==
    [raised |-> FALSE, HEALTH_STANDARDS |-> standards, HEALTH_ALIASES |-> aliases,
     log |-> <<>>]

\* data.get("health_standards", {}) as the store the grading reads.
StoreOf(entries) ==
    [k \in Keys |->
        IF \E i \in 1..Len(entries) : entries[i].key = k
        THEN (CHOOSE e \in {entries[i] : i \in 1..Len(entries)} : e.key = k).info
        ELSE NoEntry]

\* for alias in value['aliases']: HEALTH_ALIASES[alias.strip().lower()] = key
\* (a value that is no string has no strip and raises).
RECURSIVE AddAliases(_, _, _, _)
AddAliases(st, key, items, i) ==
    IF st.raised \/ i > Len(items) THEN st
    ELSE IF items[i].t # "str" THEN [st EXCEPT !.raised = TRUE]
    ELSE AddAliases([st EXCEPT !.HEALTH_ALIASES = Put(@, StripLower(items[i].s), key)],
                    key, items, i + 1)

\* for key, value in HEALTH_STANDARDS.items(): the entries that hold a list
\* under 'aliases'.
RECURSIVE AliasesFrom(_, _, _)
AliasesFrom(st, entries, i) ==
    IF st.raised \/ i > Len(entries) THEN st
    ELSE AliasesFrom(IF entries[i].aliases.kind = "list"
                        THEN AddAliases(st, entries[i].key, entries[i].aliases.items, 1)
                        ELSE st,
                     entries, i + 1)

\* The two debug lines of a load that completed, the error line of the
\* handler that re-raises.
Logged(st) ==
    [st EXCEPT !.log = IF st.raised THEN <<"error: failed to load">>
                       ELSE <<"debug: standards loaded", "debug: alias mapping created">>]

load_health_standards(doc, standards, aliases) ==
    LET st == Loading(standards, aliases)
    IN  IF doc.kind = "missing"
            THEN [st EXCEPT !.raised = TRUE, !.log = <<"error: not found">>]
        ELSE IF doc.kind # "object" THEN Logged([st EXCEPT !.raised = TRUE])
        ELSE IF ~doc.has_standards
            THEN Logged([st EXCEPT !.HEALTH_STANDARDS = EmptyStore])
        ELSE Logged(AliasesFrom([st EXCEPT !.HEALTH_STANDARDS = StoreOf(doc.entries)],
                                doc.entries, 1))

(***************************************************************************)
(* The VitalStats mappings fed in: a mapping is the sequence of its        *)
(* (key, value) pairs in iteration order.                                  *)
(***************************************************************************)
MaxKeys == 3

KeyOrder == <<"glucose", "ldl_cholesterol", "blood_pressure_systolic",
              "blood_pressure_diastolic", "hbsag", "bmi", "alt", "ast",
              "creatinine", "uric_acid", "urine_protein">>

Reverse(seq) == [i \in 1..Len(seq) |-> seq[Len(seq) + 1 - i]]

WidePool ==
    [k \in Keys |->
        CASE k = "glucose" -> {Num(95), Num(105), Num(250), NoneVal}
          [] k = "ldl_cholesterol" -> {Num(120), Num(135), NoneVal}
          [] k = "blood_pressure_systolic" -> {Num(135), Num(165), NoneVal}
          [] k = "blood_pressure_diastolic" -> {Num(70), Num(105), NoneVal}
          [] k = "hbsag" -> {Str("(-)"), Str("negative"), Str("+"), NoneVal}
          [] k = "bmi" -> {Num(24), Num(31)}
          [] OTHER -> {}]

PressurePool ==
    [k \in Keys |->
        CASE k = "blood_pressure_systolic" ->
                {Num(120), Num(135), Num(150), Num(165), Str("165"), Str("abc"), NoneVal}
          [] k = "blood_pressure_diastolic" ->
                {Num(70), Num(85), Num(95), Num(105), Str("85"), Str("abc"), NoneVal}
          [] OTHER -> {}]

SeverePool ==
    [k \in Keys |->
        CASE k = "glucose" -> {Num(250)}
          [] k = "ldl_cholesterol" -> {Num(135)}
          [] k = "blood_pressure_systolic" -> {Num(165)}
          [] k = "blood_pressure_diastolic" -> {Num(105)}
          [] k = "hbsag" -> {Str("+")}
          [] k = "bmi" -> {Num(31)}
          [] OTHER -> {}]

\* Values the normalizer turns down or reads as a token, next to a metric
\* that is graded.
TokenPool ==
    [k \in Keys |->
        CASE k = "glucose" -> {Str("abc"), Str(" 105 "), ListVal}
          [] k = "hbsag" -> {Str("abc"), Str(" (-) "), Str("NEGATIVE"), Str("-"),
                             Str("負"), Str("++"), Num(0), DictVal}
          [] k = "bmi" -> {Num(31)}
          [] OTHER -> {}]

\* Values on both sides of every hard-coded threshold; creatinine in tenths,
\* urine protein as a rank, a number past the ranks and two tokens.
LegacyPool ==
    [k \in Keys |->
        CASE k = "glucose" -> {Num(99), Num(100), Num(126), Num(127), Num(180), Num(181)}
          [] k = "ldl_cholesterol" ->
                {Num(129), Num(130), Num(160), Num(161), Num(200), Num(201)}
          [] k = "bmi" -> {Num(23), Num(24), Num(26), Num(27), Num(29), Num(30)}
          [] k = "alt" -> {Num(40), Num(41), Num(80), Num(81), Num(200), Num(201)}
          [] k = "ast" -> {Num(30), Num(31), Num(80), Num(81), Num(200), Num(201)}
          [] k = "creatinine" -> {Num(12), Num(13), Num(20), Num(21), Num(30), Num(31)}
          [] k = "uric_acid" -> {Num(6), Num(7), Num(8), Num(9), Num(10), Num(11)}
          [] k = "urine_protein" ->
                {Num(0), Num(1), Num(2), Num(3), Num(4), Str("+"), Str("++++")}
          [] OTHER -> {}]

\* The mappings that visit their keys in the given order, take each value from
\* the key's pool and hold at most left keys.
RECURSIVE MappingsFrom(_, _, _, _)
MappingsFrom(order, pool, i, left) ==
    IF i > Len(order) THEN {<<>>}
    ELSE MappingsFrom(order, pool, i + 1, left)
         \cup (IF left = 0 THEN {}
               ELSE {<<<<order[i], v>>>> \o rest :
                        v \in pool[order[i]],
                        rest \in MappingsFrom(order, pool, i + 1, left - 1)})

Inputs ==
    MappingsFrom(KeyOrder, WidePool, 1, MaxKeys)
    \cup MappingsFrom(Reverse(KeyOrder), WidePool, 1, MaxKeys)
    \cup MappingsFrom(KeyOrder, PressurePool, 1, Len(KeyOrder))
    \cup MappingsFrom(Reverse(KeyOrder), PressurePool, 1, Len(KeyOrder))
    \cup MappingsFrom(KeyOrder, SeverePool, 1, Len(KeyOrder))
    \cup MappingsFrom(KeyOrder, TokenPool, 1, Len(KeyOrder))
    \cup MappingsFrom(Reverse(KeyOrder), TokenPool, 1, Len(KeyOrder))

(***************************************************************************)
(* The scoring state machine: the store is loaded, a request arrives with  *)
(* its mapping and gender, and calculate_health_score is called on it and  *)
(* on the mapping without one of its keys.                                 *)
(***************************************************************************)
NoResult == [Acc0 EXCEPT !.status = "none"]

NoRetest == [index |-> 0, value |-> NoneVal, res |-> NoResult]

\* The globals of the load and the normalizer's local, where they play no part.
NotLoaded == file = Unread /\ HEALTH_ALIASES = NoAliases /\ log = <<>>

NotNormalized == raw_value = NoneVal /\ numeric_value = Nothing

(***************************************************************************)
(* analyze_health_report and the part of upload_health that calls it.  The *)
(* extraction is the outside service: it gives None, or a mapping holding  *)
(* "vital_stats", whose value is a mapping, null or a list.                *)
(***************************************************************************)
NoData == [kind |-> "none", stats_kind |-> "mapping", vital_stats |-> <<>>]

Data(stats) == [kind |-> "data", stats_kind |-> "mapping", vital_stats |-> stats]

DataWith(stats_kind) == [kind |-> "data", stats_kind |-> stats_kind, vital_stats |-> <<>>]

\* return None, 0, []
FailureTriple == [status |-> "returned", data |-> NoData, score |-> 0, warnings |-> <<>>]

RaisedTriple == [status |-> "raised", data |-> NoData, score |-> 0, warnings |-> <<>>]

NotAnalyzed == [status |-> "none", data |-> NoData, score |-> 0, warnings |-> <<>>]

\* gemini_data.get("vital_stats", {}) is handed to calculate_health_score,
\* which iterates its items: a value that is no mapping has none and raises.
analyze_health_report(file_type, gemini_data, g, store) ==
    IF file_type \notin {"image", "pdf"} THEN FailureTriple
    ELSE IF gemini_data.kind = "none" THEN FailureTriple
    ELSE IF gemini_data.stats_kind # "mapping" THEN RaisedTriple
    ELSE LET r == calculate_health_score(gemini_data.vital_stats, g, store)
         IN  IF r.status = "raised" THEN RaisedTriple
             ELSE [status |-> "returned", data |-> gemini_data, score |-> r.score,
                   warnings |-> r.warnings]

\* except Exception: analysis_data, health_score, health_warnings = None, 0, []
AfterHandler(returned) ==
    IF returned.status = "raised" THEN FailureTriple ELSE returned

\* health_report_doc, with the three analysis fields when analysis_data is
\* there.
ReportDoc(file_type, local) ==
    IF local.data.kind = "data"
    THEN [file_type |-> file_type, vital_stats |-> local.data.vital_stats,
          health_score |-> local.score, health_warnings |-> local.warnings]
    ELSE [file_type |-> file_type]

NoUpload == [via |-> "none", file_type |-> "", gemini_data |-> NoData, gender |-> ""]

NotUploaded == upload = NoUpload /\ analysis = NotAnalyzed /\ health_reports = <<>>

\* The requests being served at once, each with the locals of its call.
MaxCalls == 2

Callers == 1..MaxCalls

Idle == [at |-> "idle", vital_stats |-> <<>>, gender |-> "None", i |-> 0,
         acc |-> NoResult]

NoCalls == [c \in Callers |-> Idle]

Without(stats, i) == SubSeq(stats, 1, i - 1) \o SubSeq(stats, i + 1, Len(stats))

Init ==
    /\ HEALTH_STANDARDS \in Stores
    /\ vital_stats \in Inputs
    /\ gender \in Genders
    /\ pc = "request"
    /\ result = NoResult
    /\ base = [dropped |-> 0, res |-> NoResult]
    /\ retest = NoRetest
    /\ text = <<>>
    /\ extracted = NoExtract
    /\ calls = NoCalls
    /\ NotLoaded
    /\ NotNormalized
    /\ NotUploaded

Score ==
    /\ pc = "request"
    /\ result' = calculate_health_score(vital_stats, gender, HEALTH_STANDARDS)
    /\ pc' = "scored"
    /\ UNCHANGED <<HEALTH_STANDARDS, vital_stats, gender, base, retest,
                   extractVars, loadVars, normVars, calls,
                   uploadVars>>

ScoreWithout ==
    /\ pc = "scored"
    /\ \E i \in 1..Len(vital_stats) :
          base' = [dropped |-> i,
                   res |-> calculate_health_score(Without(vital_stats, i), gender,
                                                  HEALTH_STANDARDS)]
    /\ pc' = "compared"
    /\ UNCHANGED <<HEALTH_STANDARDS, vital_stats, gender, result, retest,
                   extractVars, loadVars, normVars, calls,
                   uploadVars>>

Next == Score \/ ScoreWithout

Spec == Init /\ [][Next]_vars

(***************************************************************************)
(* The same call made twice on a metric of the hard-coded thresholds: on a *)
(* mapping, and on the mapping with another value for one of its keys.     *)
(***************************************************************************)
MaxLegacyKeys == 1

Replace(stats, i, value) == [stats EXCEPT ![i] = <<stats[i][1], value>>]

InitLegacy ==
    /\ HEALTH_STANDARDS \in {FallbackStore, LegacyStore}
    /\ vital_stats \in MappingsFrom(KeyOrder, LegacyPool, 1, MaxLegacyKeys)
    /\ gender \in Genders
    /\ pc = "request"
    /\ result = NoResult
    /\ base = [dropped |-> 0, res |-> NoResult]
    /\ retest = NoRetest
    /\ text = <<>>
    /\ extracted = NoExtract
    /\ calls = NoCalls
    /\ NotLoaded
    /\ NotNormalized
    /\ NotUploaded

ScoreWith ==
    /\ pc = "scored"
    /\ \E i \in 1..Len(vital_stats) :
          \E value \in LegacyPool[vital_stats[i][1]] :
              retest' = [index |-> i, value |-> value,
                         res |-> calculate_health_score(Replace(vital_stats, i, value),
                                                        gender, HEALTH_STANDARDS)]
    /\ pc' = "retested"
    /\ UNCHANGED <<HEALTH_STANDARDS, vital_stats, gender, result, base,
                   extractVars, loadVars, normVars, calls,
                   uploadVars>>

NextLegacy == Score \/ ScoreWith

SpecLegacy == InitLegacy /\ [][NextLegacy]_vars

(***************************************************************************)
(* The extractor's state machine: a reply arrives and is parsed.           *)
(***************************************************************************)
MaxLen == 4

RECURSIVE Replies(_)
Replies(n) ==
    IF n = 0 THEN {<<>>}
    ELSE Replies(n - 1)
         \cup {Append(r, p) : r \in {q \in Replies(n - 1) : Len(q) = n - 1},
                              p \in Pieces}

InitExtract ==
    /\ HEALTH_STANDARDS = EmptyStore
    /\ vital_stats = <<>>
    /\ gender = "None"
    /\ pc = "reply"
    /\ result = NoResult
    /\ base = [dropped |-> 0, res |-> NoResult]
    /\ retest = NoRetest
    /\ text \in Replies(MaxLen)
    /\ extracted = NoExtract
    /\ calls = NoCalls
    /\ NotLoaded
    /\ NotNormalized
    /\ NotUploaded

Extract ==
    /\ pc = "reply"
    /\ extracted' = extract_json_from_response(text)
    /\ pc' = "parsed"
    /\ UNCHANGED <<scoreVars, text, loadVars, normVars, calls, uploadVars>>

NextExtract == Extract

SpecExtract == InitExtract /\ [][NextExtract]_vars

(***************************************************************************)
(* The normalizer on its own: get_numeric_value is called on a raw value.  *)
(***************************************************************************)
MaxNumber == 40

RawStrings ==
    {"負", "negative", " Negative ", "NEGATIVE", "(-)", " (-) ", "-", "+/-", "+",
     "++", "+++", " ++ ", "++++", "+++++", "105", " 105 ", "135", "165", "85",
     "abc", "ABC", "", "positive", "--"}

RawValues ==
    {Num(n) : n \in 0..MaxNumber} \cup {Str(str) : str \in RawStrings}
    \cup {NoneVal, ListVal, DictVal}

InitNormalize ==
    /\ HEALTH_STANDARDS = EmptyStore
    /\ vital_stats = <<>>
    /\ gender = "None"
    /\ pc = "value"
    /\ result = NoResult
    /\ base = [dropped |-> 0, res |-> NoResult]
    /\ retest = NoRetest
    /\ text = <<>>
    /\ extracted = NoExtract
    /\ calls = NoCalls
    /\ NotLoaded
    /\ raw_value \in RawValues
    /\ numeric_value = Nothing
    /\ NotUploaded

Normalize ==
    /\ pc = "value"
    /\ numeric_value' = (IF Escapes(raw_value) THEN Nothing
                         ELSE get_numeric_value(raw_value))
    /\ pc' = IF Escapes(raw_value) THEN "raised" ELSE "normalized"
    /\ UNCHANGED <<scoreVars, extractVars, loadVars, raw_value, calls, uploadVars>>

NextNormalize == Normalize

SpecNormalize == InitNormalize /\ [][NextNormalize]_vars

(***************************************************************************)
(* The upload flow: reports are posted one after the other, and            *)
(* analyze_health_report is also called on its own.                        *)
(***************************************************************************)
MaxUploads == 2

\* upload_health turns away a user without gender and a file that is neither
\* an image nor a PDF before it analyses anything.
UserGenders == {"male", "other"}

Extractions ==
    {NoData, DataWith("null"), Data(<<>>),
     Data(<< <<"glucose", Num(105)>>, <<"hbsag", Str("+")>> >>),
     Data(<< <<"hbsag", Str("(-)")>> >>)}

InitUpload ==
    /\ HEALTH_STANDARDS = PlainStore
    /\ vital_stats = <<>>
    /\ gender = "None"
    /\ pc = "uploads"
    /\ result = NoResult
    /\ base = [dropped |-> 0, res |-> NoResult]
    /\ retest = NoRetest
    /\ text = <<>>
    /\ extracted = NoExtract
    /\ calls = NoCalls
    /\ NotLoaded
    /\ NotNormalized
    /\ NotUploaded

upload_health ==
    /\ pc = "uploads"
    /\ Len(health_reports) < MaxUploads
    /\ \E file_type \in {"image", "pdf"}, g \in UserGenders, gemini_data \in Extractions :
          LET returned == analyze_health_report(file_type, gemini_data, g,
                                                HEALTH_STANDARDS)
          IN  /\ upload' = [via |-> "upload", file_type |-> file_type,
                            gemini_data |-> gemini_data, gender |-> g]
              /\ analysis' = returned
              /\ health_reports' =
                    Append(health_reports, ReportDoc(file_type, AfterHandler(returned)))
    /\ UNCHANGED <<scoreVars, extractVars, loadVars, normVars, calls, pc>>

AnalyzeDirect ==
    /\ pc = "uploads"
    /\ \E file_type \in {"image", "pdf", "docx"}, g \in UserGenders,
          gemini_data \in Extractions :
          /\ upload' = [via |-> "direct", file_type |-> file_type,
                        gemini_data |-> gemini_data, gender |-> g]
          /\ analysis' = analyze_health_report(file_type, gemini_data, g,
                                               HEALTH_STANDARDS)
    /\ UNCHANGED <<scoreVars, extractVars, loadVars, normVars, health_reports,
                   calls, pc>>

NextUpload == upload_health \/ AnalyzeDirect

SpecUpload == InitUpload /\ [][NextUpload]_vars

(***************************************************************************)
(* The start of the process: the module is imported with some file at      *)
(* HEALTH_STANDARDS_FILE and load_health_standards runs on it.             *)
(***************************************************************************)
MaxEntries == 2

ConfigKeys == {"glucose", "ldl_cholesterol", "hbsag"}

AliasDecls ==
    {AliasesAbsent, AliasesString, AliasList(<<>>),
     AliasList(<<Str(" GLU ")>>),
     AliasList(<<Str("Glu"), Str("Sugar")>>),
     AliasList(<<Str("sugar")>>),
     AliasList(<<Str("glu"), Num(7)>>)}

\* The mappings of at most n entries, in every order of declaration.
RECURSIVE EntriesUpTo(_)
EntriesUpTo(n) ==
    IF n = 0 THEN {<<>>}
    ELSE EntriesUpTo(n - 1)
         \cup {Append(es, Declared(k, PlainStore[k], d)) :
                  es \in {q \in EntriesUpTo(n - 1) :
                            Len(q) = n - 1},
                  k \in ConfigKeys, d \in AliasDecls}

DistinctKeys(entries) ==
    \A i, j \in 1..Len(entries) : entries[i].key = entries[j].key => i = j

Files ==
    {Document("missing", FALSE, <<>>), Document("invalid", FALSE, <<>>),
     Document("array", FALSE, <<>>), Document("object", FALSE, <<>>)}
    \cup {Document("object", TRUE, es) :
             es \in {q \in EntriesUpTo(MaxEntries) : DistinctKeys(q)}}

InitLoad ==
    /\ HEALTH_STANDARDS = EmptyStore
    /\ vital_stats = <<>>
    /\ gender = "None"
    /\ pc = "import"
    /\ result = NoResult
    /\ base = [dropped |-> 0, res |-> NoResult]
    /\ retest = NoRetest
    /\ text = <<>>
    /\ extracted = NoExtract
    /\ calls = NoCalls
    /\ file \in Files
    /\ HEALTH_ALIASES = NoAliases
    /\ log = <<>>
    /\ NotNormalized
    /\ NotUploaded

\* load_health_standards() at module level: an exception ends the import.
ImportModule ==
    /\ pc = "import"
    /\ LET st == load_health_standards(file, HEALTH_STANDARDS, HEALTH_ALIASES)
       IN  /\ HEALTH_STANDARDS' = st.HEALTH_STANDARDS
           /\ HEALTH_ALIASES' = st.HEALTH_ALIASES
           /\ log' = st.log
           /\ pc' = IF st.raised THEN "crashed" ELSE "serving"
    /\ UNCHANGED <<vital_stats, gender, result, base, retest, extractVars, file,
                   normVars, calls,
                   uploadVars>>

NextLoad == ImportModule

SpecLoad == InitLoad /\ [][NextLoad]_vars

(***************************************************************************)
(* The serving state machine: the module is imported (the store is loaded  *)
(* once), then requests run calculate_health_score side by side, one       *)
(* statement group at a time.                                              *)
(***************************************************************************)
ServedInputs ==
    {<<>>,
     << <<"glucose", Num(105)>>, <<"hbsag", Str("+")>> >>,
     << <<"blood_pressure_systolic", Num(165)>>, <<"ldl_cholesterol", Num(135)>> >>}

ServedGenders == {"male", "female"}

InitServe ==
    /\ HEALTH_STANDARDS = EmptyStore
    /\ vital_stats = <<>>
    /\ gender = "None"
    /\ pc = "startup"
    /\ result = NoResult
    /\ base = [dropped |-> 0, res |-> NoResult]
    /\ retest = NoRetest
    /\ text = <<>>
    /\ extracted = NoExtract
    /\ calls = NoCalls
    /\ NotLoaded
    /\ NotNormalized
    /\ NotUploaded

\* load_health_standards() runs when the module is imported, and only then.
LoadAnytime == TRUE

LoadOnce == pc = "startup"

Load ==
    /\ LoadOnce
    /\ HEALTH_STANDARDS' \in Stores
    /\ pc' = "serving"
    /\ UNCHANGED <<vital_stats, gender, result, base, retest, extractVars,
                   loadVars, normVars, calls,
                   uploadVars>>

Begin(c) ==
    /\ pc = "serving"
    /\ calls[c].at = "idle"
    /\ \E stats \in ServedInputs, g \in ServedGenders :
          calls' = [calls EXCEPT ![c] =
                      [at |-> "loop", vital_stats |-> stats, gender |-> g, i |-> 1,
                       acc |-> Acc0]]
    /\ UNCHANGED <<scoreVars, extractVars, loadVars, normVars, pc, uploadVars>>

LoopStep(c) ==
    /\ calls[c].at = "loop"
    /\ calls[c].i <= Len(calls[c].vital_stats)
    /\ calls' = [calls EXCEPT
                   ![c].acc = ProcessMetric(@, calls[c].vital_stats[calls[c].i][1],
                                            calls[c].vital_stats[calls[c].i][2],
                                            HEALTH_STANDARDS, calls[c].gender),
                   ![c].i = @ + 1]
    /\ UNCHANGED <<scoreVars, extractVars, loadVars, normVars, pc, uploadVars>>

PressureStep(c) ==
    /\ calls[c].at = "loop"
    /\ calls[c].i > Len(calls[c].vital_stats)
    /\ calls' = [calls EXCEPT ![c].acc = BloodPressure(@, calls[c].vital_stats),
                              ![c].at = "risk"]
    /\ UNCHANGED <<scoreVars, extractVars, loadVars, normVars, pc, uploadVars>>

RiskStep(c) ==
    /\ calls[c].at = "risk"
    /\ calls' = [calls EXCEPT ![c].acc = CompoundRisk(@, calls[c].vital_stats),
                              ![c].at = "floor"]
    /\ UNCHANGED <<scoreVars, extractVars, loadVars, normVars, pc, uploadVars>>

Return(c) ==
    /\ calls[c].at = "floor"
    /\ calls' = [calls EXCEPT ![c].acc = Floor(@), ![c].at = "done"]
    /\ UNCHANGED <<scoreVars, extractVars, loadVars, normVars, pc, uploadVars>>

NextServe ==
    \/ Load
    \/ \E c \in Callers : Begin(c)
    \/ \E c \in Callers : LoopStep(c)
    \/ \E c \in Callers : PressureStep(c)
    \/ \E c \in Callers : RiskStep(c)
    \/ \E c \in Callers : Return(c)

SpecServe == InitServe /\ [][NextServe]_vars

(***************************************************************************)
(* Properties of calculate_health_score.                                   *)
(***************************************************************************)
Returned(r) == r.status = "returned"

Compared == pc = "compared" /\ Returned(result) /\ Returned(base.res)

DroppedKey == vital_stats[base.dropped][1]

Has(stats, key) == \E i \in 1..Len(stats) : stats[i][1] = key

Numeric(key) == get_numeric_value(Get(vital_stats, key))

CountKind(warnings, kinds) ==
    Cardinality({i \in 1..Len(warnings) : warnings[i].kind \in kinds})

\* C1: every score calculate_health_score returns is an integer between 1 and
\* 100: it starts at 100, is only decreased and is floored at 1.
C1_ScoreInRange ==
    /\ Returned(result) => result.score \in 1..100
    /\ Returned(base.res) => base.res.score \in 1..100

\* C1 witness: a call whose deductions exceed 99 returned the floor, 1.
C1_FloorReached ==
    /\ Returned(result)
    /\ result.score = 1
    /\ Len(result.warnings) >= 7

\* C2: adding a key to a mapping never raises the score.
C2_Monotonic == Compared => result.score <= base.res.score

\* C2 witness: the added key is the second blood-pressure reading, the call
\* without it took the one-reading branch, and the score went down.
C2_SecondReadingAdded ==
    /\ Compared
    /\ DroppedKey = "blood_pressure_diastolic"
    /\ Numeric("blood_pressure_systolic").ok
    /\ Numeric("blood_pressure_diastolic").ok
    /\ result.score < base.res.score

\* The gender bands of the entry a graded metric was looked up in.
BandsOf(key) == GenderGrades(HEALTH_STANDARDS[key], GenderKey(gender))

InBand(key, i) ==
    BandsOf(key)[i].lo <= Numeric(key).n /\ Numeric(key).n <= BandsOf(key)[i].hi

OutOfReference(key) ==
    LET ref == RefValue(HEALTH_STANDARDS[key], GenderKey(gender))
        nv == Numeric(key).n
    IN  \/ ref.kind = "range" /\ (nv < ref.lo \/ nv > ref.hi)
        \/ ref.kind = "lt" /\ nv >= ref.hi
        \/ ref.kind = "gt" /\ nv <= ref.lo

FirstBandLabel(key, grade) ==
    \E i \in 1..Len(BandsOf(key)) :
        /\ InBand(key, i)
        /\ \A j \in 1..(i - 1) : ~InBand(key, j)
        /\ grade = BandsOf(key)[i].g

NoBand(key) == \A i \in 1..Len(BandsOf(key)) : ~InBand(key, i)

Banded(r, i) ==
    /\ r.graded[i].grade # "Q"
    /\ Len(BandsOf(r.graded[i].key)) > 0

\* C3 as stated: with bands for the caller's gender the grade is the label of
\* the first band holding the value, and none when no band holds it, whatever
\* the reference expression says.
C3_BandsOrNone ==
    \A i \in 1..Len(result.graded) :
        Banded(result, i) =>
            \/ FirstBandLabel(result.graded[i].key, result.graded[i].grade)
            \/ NoBand(result.graded[i].key) /\ result.graded[i].grade = ""

\* C3 amended: with bands for the caller's gender the grade is the label of
\* the first band holding the value whatever the reference expression and the
\* legacy thresholds say; when no band holds the value, the grade is A if the
\* reference expression puts the value out of range and none otherwise.
C3_BandsThenReference ==
    \A i \in 1..Len(result.graded) :
        Banded(result, i) =>
            \/ FirstBandLabel(result.graded[i].key, result.graded[i].grade)
            \/ /\ NoBand(result.graded[i].key)
               /\ result.graded[i].grade =
                    IF OutOfReference(result.graded[i].key) THEN "A" ELSE ""

\* C3 witness: a value inside a band whose label differs from what the
\* reference expression and the legacy thresholds give (glucose 105, bands
\* C then A overlapping), graded by the first band.
C3_BandOverrides ==
    /\ Returned(result)
    /\ \E i \in 1..Len(result.graded) :
          /\ Banded(result, i)
          /\ result.graded[i].key = "glucose"
          /\ OutOfReference("glucose")
          /\ LegacyGrade("glucose", Numeric("glucose").n) = "A"
          /\ result.graded[i].grade = "C"

\* The tier the claim gives the two readings.
ClaimedTier ==
    LET s == Numeric("blood_pressure_systolic")
        d == Numeric("blood_pressure_diastolic")
        sys == IF s.ok THEN s.n ELSE 0
        dia == IF d.ok THEN d.n ELSE 0
    IN  IF sys >= 160 \/ dia >= 100 THEN 15
        ELSE IF sys >= 140 \/ dia >= 90 THEN 10
        ELSE IF sys >= 130 \/ dia >= 80 THEN 5
        ELSE 0

PressureKinds == {"bp", "bp_systolic", "bp_diastolic"}

\* C4: the blood-pressure evaluator deducts for the most severe tier either
\* reading reaches (C 160/100, B 140/90, A 130/80), once, with one warning;
\* a single reading is held against the same thresholds.
C4_MostSevereTier ==
    Returned(result) =>
        /\ result.bp = ClaimedTier
        /\ result.bp \in {0, 5, 10, 15}
        /\ CountKind(result.warnings, PressureKinds) = (IF result.bp > 0 THEN 1 ELSE 0)
        /\ HEALTH_STANDARDS = EmptyStore =>
              result.score = 100 - result.bp - 5 * result.high_count

\* C4 witness: systolic 165 with diastolic 70 was graded C.
C4_SystolicDecides ==
    /\ Returned(result)
    /\ Get(vital_stats, "blood_pressure_systolic") = Num(165)
    /\ Get(vital_stats, "blood_pressure_diastolic") = Num(70)
    /\ result.bp = 15

\* The three conditions of the compound-risk count.
ClaimedCount ==
    Cardinality(
        {c \in {"glucose", "ldl", "pressure"} :
            \/ c = "glucose" /\ Numeric("glucose").ok /\ Numeric("glucose").n >= 100
            \/ c = "ldl" /\ Numeric("ldl_cholesterol").ok
                         /\ Numeric("ldl_cholesterol").n >= 130
            \/ c = "pressure"
                 /\ \/ Numeric("blood_pressure_systolic").ok
                       /\ Numeric("blood_pressure_systolic").n >= 130
                    \/ Numeric("blood_pressure_diastolic").ok
                       /\ Numeric("blood_pressure_diastolic").n >= 80})

GradedAs(r, key, grade) ==
    \E i \in 1..Len(r.graded) : r.graded[i] = [key |-> key, grade |-> grade]

ExampleMapping ==
    /\ Len(vital_stats) = 3
    /\ Get(vital_stats, "glucose") = Num(105)
    /\ Get(vital_stats, "ldl_cholesterol") = Num(135)
    /\ Get(vital_stats, "blood_pressure_systolic") = Num(135)

\* C5, the count alone: the compound-risk count is the number of the three
\* conditions that hold, and one summary warning is given exactly when it is
\* at least 1.
CompoundCountAsClaimed ==
    Returned(result) =>
        /\ result.high_count = ClaimedCount
        /\ CountKind(result.warnings, {"high"}) = (IF ClaimedCount >= 1 THEN 1 ELSE 0)

\* C5: the compound-risk count is the number of the three conditions that
\* hold, it costs 5 a condition with one summary warning, and the mapping
\* {glucose 105, LDL 135, systolic 135} with glucose and LDL graded A loses
\* 5 + 5 + 5 + 15 and scores 70.
C5_CompoundRisk ==
    /\ CompoundCountAsClaimed
    /\ (/\ Returned(result)
        /\ ExampleMapping
        /\ GradedAs(result, "glucose", "A")
        /\ GradedAs(result, "ldl_cholesterol", "A")) => result.score = 70

\* C9: a mapping that is empty or holds only None values scores 100 with no
\* warning, for every gender value.
C9_NothingToGrade ==
    (/\ result.status # "none"
     /\ \A i \in 1..Len(vital_stats) : vital_stats[i][2] = NoneVal)
        => (Returned(result) /\ result.score = 100 /\ result.warnings = <<>>)

\* C9 witness: a call with no gender on a mapping of None values, one of them
\* a blood-pressure reading and one an expected-negative marker.
C9_AllMissingScored ==
    /\ Returned(result)
    /\ gender = "None"
    /\ Len(vital_stats) = 3
    /\ Has(vital_stats, "blood_pressure_systolic")
    /\ Has(vital_stats, "hbsag")
    /\ HEALTH_STANDARDS[ "hbsag" ].present
    /\ \A i \in 1..Len(vital_stats) : vital_stats[i][2] = NoneVal

\* C10: a key without an entry in the Standards Store changes neither the
\* score nor the warnings, glucose, LDL and the blood-pressure keys included.
C10_UnknownKeyIgnored ==
    (/\ pc = "compared"
     /\ ~HEALTH_STANDARDS[DroppedKey].present)
        => (/\ result.status = base.res.status
            /\ result.score = base.res.score
            /\ result.warnings = base.res.warnings)

\* A raw value the normalizer gives None for although it is not None.
Unnormalizable(value) == value.t # "none" /\ ~get_numeric_value(value).ok

DroppedValue == vital_stats[base.dropped][2]

SameOutcome(r, q) ==
    r.status = q.status /\ r.score = q.score /\ r.warnings = q.warnings

\* C11, metrics without an expected-negative reference: a value that cannot
\* be normalized leaves score and warnings as they are without the key.
UnparseableSkippedElsewhere ==
    (/\ pc = "compared"
     /\ Unnormalizable(DroppedValue)
     /\ HEALTH_STANDARDS[DroppedKey].present
     /\ RefValue(HEALTH_STANDARDS[DroppedKey], GenderKey(gender)).kind # "neg")
        => SameOutcome(result, base.res)

\* C11: a value that cannot be normalized is treated like a missing one for
\* every recognized metric, the expected-negative ones included: the call
\* gives the score and the warnings it gives without the key.
C11_UnparseableAsMissing ==
    (/\ pc = "compared"
     /\ Unnormalizable(DroppedValue)
     /\ HEALTH_STANDARDS[DroppedKey].present)
        => SameOutcome(result, base.res)

\* C12: calculate_health_score never raises: every call made on a store of
\* well-formed reference expressions has returned a score and warnings, the
\* call that gives an expected-negative metric the value "(-)" included.
C12_NeverRaises ==
    /\ pc # "request" => Returned(result)
    /\ pc = "compared" => Returned(base.res)

\* The dropped key is an expected-negative metric of the store.
DroppedExpectedNegative ==
    /\ pc = "compared"
    /\ HEALTH_STANDARDS[DroppedKey].present
    /\ RefValue(HEALTH_STANDARDS[DroppedKey], GenderKey(gender)).kind = "neg"

NegativeToken(value) ==
    value.t = "str" /\ StripLower(value.s) \in {"負", "negative", "(-)", "-"}

\* C15, the positive values: a value that normalizes to a rank above 0 costs
\* an expected-negative metric 5 points and one warning naming the metric and
\* the raw value, and the metric gets no grade.
QualitativeHitCharged ==
    (/\ DroppedExpectedNegative
     /\ get_numeric_value(DroppedValue).ok
     /\ get_numeric_value(DroppedValue).n > 0)
        => /\ Returned(result) /\ Returned(base.res)
           /\ result.score = (IF base.res.score - 5 < 1 THEN 1 ELSE base.res.score - 5)
           /\ Len(result.warnings) = Len(base.res.warnings) + 1
           /\ \E i \in 1..Len(result.warnings) :
                 result.warnings[i] =
                    Warning("range", HEALTH_STANDARDS[DroppedKey].name, "",
                            DroppedValue, 0, 0)
           /\ GradedAs(result, DroppedKey, "Q")
           /\ \A g \in {"", "A", "B", "C"} : ~GradedAs(result, DroppedKey, g)

\* C15: for an expected-negative metric a value that normalizes to the
\* negative token, whatever its case and surrounding white space, leaves
\* score and warnings alone, and every value of a higher rank costs 5 points
\* and one warning and is not graded further.
C15_NegativeTokenPasses ==
    /\ QualitativeHitCharged
    /\ (DroppedExpectedNegative /\ NegativeToken(DroppedValue))
          => SameOutcome(result, base.res)

PressureKeys == {"blood_pressure_systolic", "blood_pressure_diastolic"}

\* The points the per-metric loop took for the blood-pressure keys.
RECURSIVE LoopPressurePoints(_, _)
LoopPressurePoints(graded, i) ==
    IF i > Len(graded) THEN 0
    ELSE (IF graded[i].key \in PressureKeys
          THEN (IF graded[i].grade = "Q" THEN 5 ELSE Deduction(graded[i].grade))
          ELSE 0)
         + LoopPressurePoints(graded, i + 1)

\* C16: whatever entries the store holds for the two blood-pressure keys, the
\* per-metric loop takes no points for them: the readings cost the one tier
\* deduction of the blood-pressure evaluator (0, 5, 10 or 15) with at most
\* one tier warning.
C16_PressureGradedOnce ==
    Returned(result) =>
        /\ LoopPressurePoints(result.graded, 1) = 0
        /\ result.bp \in {0, 5, 10, 15}
        /\ CountKind(result.warnings, PressureKinds) <= 1

\* The grade the loop gave a key; "-" when it gave none an entry.
GradeGiven(r, key) ==
    IF \E i \in 1..Len(r.graded) : r.graded[i].key = key
    THEN r.graded[CHOOSE i \in 1..Len(r.graded) : r.graded[i].key = key].grade
    ELSE "-"

GradeRank(grade) ==
    CASE grade = "" -> 0 [] grade = "A" -> 1 [] grade = "B" -> 2 [] grade = "C" -> 3
      [] OTHER -> 0 - 1

\* The two calls graded the retested key by the hard-coded thresholds.
RetestedKey == vital_stats[retest.index][1]

FirstValue == get_numeric_value(vital_stats[retest.index][2]).n

SecondValue == get_numeric_value(retest.value).n

Retested ==
    /\ pc = "retested" /\ Returned(result) /\ Returned(retest.res)
    /\ RetestedKey \in LegacyMetrics
    /\ RefValue(HEALTH_STANDARDS[RetestedKey], GenderKey(gender)).kind \in {"absent", "empty"}
    /\ GradeRank(GradeGiven(result, RetestedKey)) >= 0
    /\ GradeRank(GradeGiven(retest.res, RetestedKey)) >= 0

Ascending ==
    FirstValue <= SecondValue =>
        GradeRank(GradeGiven(result, RetestedKey))
            <= GradeRank(GradeGiven(retest.res, RetestedKey))

\* The examples of the claim: glucose and the urine-protein ranks.
ClaimedExamples ==
    /\ RetestedKey = "glucose" =>
          GradeGiven(result, "glucose") =
              (IF FirstValue < 100 THEN "" ELSE IF FirstValue <= 126 THEN "A"
               ELSE IF FirstValue <= 180 THEN "B" ELSE "C")
    /\ (RetestedKey = "urine_protein" /\ FirstValue \in 1..3) =>
          GradeGiven(result, "urine_protein") =
              (IF FirstValue = 1 THEN "A" ELSE IF FirstValue = 2 THEN "B" ELSE "C")

\* C17, the seven metrics graded by comparison: the grade is ascending in
\* the value.
AscendingBelowUrineProtein ==
    (Retested /\ RetestedKey # "urine_protein") => (Ascending /\ ClaimedExamples)

\* C17: for every legacy metric graded by the hard-coded thresholds the
\* grade is ascending in the value, none < A < B < C: of two values of one
\* metric the larger never gets the lower grade; glucose 100..126 is A, up to
\* 180 B, above C, and the urine-protein ranks 1, 2, 3 are A, B, C.
C17_LegacyAscending == Retested => (Ascending /\ ClaimedExamples)

\* Entry i of the graded list was graded on a reference expression of one of
\* the three forms, the entry having no bands for the caller's gender.
ByExpression(r, i) ==
    /\ r.graded[i].grade # "Q"
    /\ Len(BandsOf(r.graded[i].key)) = 0
    /\ RefValue(HEALTH_STANDARDS[r.graded[i].key], GenderKey(gender)).kind
          \in {"range", "lt", "gt"}

\* C18, the values out of range: they are graded A.
OutOfRangeIsA ==
    \A i \in 1..Len(result.graded) :
        (ByExpression(result, i) /\ OutOfReference(result.graded[i].key))
            => result.graded[i].grade = "A"

\* C18: without bands for the caller's gender the reference expression, the
\* per-gender one when declared, decides the grade alone: none for a value
\* in range, A for every other value, and the hard-coded thresholds are not
\* applied.
C18_ExpressionAlone ==
    \A i \in 1..Len(result.graded) :
        ByExpression(result, i) =>
            result.graded[i].grade =
                (IF OutOfReference(result.graded[i].key) THEN "A" ELSE "")

\* The metrics the loop charged, in the order it charged them.
Charged(g) == g.grade \in {"A", "B", "C", "Q"}

KeyIndex(stats, key) == CHOOSE i \in 1..Len(stats) : stats[i][1] = key

\* The points of the deduction event a warning reports.
EventPoints(w) ==
    CASE w.kind = "range" -> 5
      [] w.kind = "grade" -> Deduction(w.grade)
      [] w.kind \in PressureKinds -> Deduction(w.grade)
      [] w.kind = "high" -> 5 * w.a
      [] OTHER -> 0

RECURSIVE SumPoints(_, _)
SumPoints(warnings, i) ==
    IF i > Len(warnings) THEN 0
    ELSE EventPoints(warnings[i]) + SumPoints(warnings, i + 1)

\* The warning of the i-th metric the loop charged.
MetricWarning(r, loop, i) ==
    /\ r.warnings[i].name = HEALTH_STANDARDS[loop[i].key].name
    /\ r.warnings[i].raw = Get(vital_stats, loop[i].key)
    /\ IF loop[i].grade = "Q" THEN r.warnings[i].kind = "range"
       ELSE r.warnings[i].kind = "grade" /\ r.warnings[i].grade = loop[i].grade

\* C19: the warnings are one per deduction event and no more: one for each
\* metric graded A, B or C or hit on an expected-negative reference, in the
\* order the mapping lists its keys, then the blood-pressure tier, then the
\* compound-risk summary; a grade of none, a band label that is no grade
\* included, gives no warning; and the score is 100 less the points of
\* those events, not below 1.
C19_OneWarningPerDeduction ==
    Returned(result) =>
        LET loop == SelectSeq(result.graded, Charged)
            n == Len(loop)
            nbp == IF result.bp > 0 THEN 1 ELSE 0
            nhigh == IF result.high_count > 0 THEN 1 ELSE 0
            points == SumPoints(result.warnings, 1)
        IN  /\ Len(result.warnings) = n + nbp + nhigh
            /\ \A i \in 1..n : MetricWarning(result, loop, i)
            /\ \A i, j \in 1..Len(result.graded) :
                  i < j => KeyIndex(vital_stats, result.graded[i].key)
                              < KeyIndex(vital_stats, result.graded[j].key)
            /\ nbp = 1 =>
                  /\ result.warnings[n + 1].kind \in PressureKinds
                  /\ Deduction(result.warnings[n + 1].grade) = result.bp
            /\ nhigh = 1 =>
                  /\ result.warnings[n + nbp + 1].kind = "high"
                  /\ result.warnings[n + nbp + 1].a = result.high_count
            /\ result.score = (IF 100 - points < 1 THEN 1 ELSE 100 - points)

\* C19 witness: a mapping listed from bmi back to glucose whose bmi fell in
\* the band labelled normal (no warning), whose glucose was graded, and which
\* drew a blood-pressure warning and the compound-risk summary after it.
C19_AllEventsInOrder ==
    /\ Returned(result)
    /\ Len(vital_stats) = 3
    /\ vital_stats[1][1] = "bmi"
    /\ GradedAs(result, "bmi", "normal")
    /\ vital_stats[3][1] = "glucose"
    /\ GradeGiven(result, "glucose") \in {"A", "B", "C"}
    /\ CountKind(result.warnings, PressureKinds) = 1
    /\ CountKind(result.warnings, {"high"}) = 1
    /\ result.warnings[Len(result.warnings)].kind = "high"

\* The call the claim compares with: the same mapping scored as female.
AsFemale == calculate_health_score(vital_stats, "female", HEALTH_STANDARDS)

AsMale == calculate_health_score(vital_stats, "male", HEALTH_STANDARDS)

\* C21: a gender that is not exactly male or female (None, the empty string,
\* another word, another spelling of male) is scored as female: the call
\* gives the outcome, and every metric the grade, that the call with female
\* gives, the reference expression and the bands being the female ones.
C21_GenderDefaultsToFemale ==
    (pc # "request" /\ gender \notin {"male", "female"}) =>
        /\ SameOutcome(result, AsFemale)
        /\ result.graded = AsFemale.graded
        /\ \A i \in 1..Len(vital_stats) :
              HEALTH_STANDARDS[vital_stats[i][1]].present =>
                  /\ RefValue(HEALTH_STANDARDS[vital_stats[i][1]], GenderKey(gender))
                        = RefValue(HEALTH_STANDARDS[vital_stats[i][1]], "female")
                  /\ BandsOf(vital_stats[i][1])
                        = HEALTH_STANDARDS[vital_stats[i][1]].grades_female

\* C21 witness: a call with the spelling Male has returned on a mapping that
\* the male and the female configuration score differently.
C21_MaleSpellingScoredFemale ==
    /\ Returned(result)
    /\ gender = "Male"
    /\ Returned(AsMale)
    /\ AsMale.score # AsFemale.score
    /\ result.score = AsFemale.score

\* C22: every score returned is 1 or a multiple of 5 from 5 to 100, and the
\* warnings are empty exactly when the score is 100.
C22_ScoreStepsOfFive ==
    \A r \in {result, base.res} :
        Returned(r) =>
            /\ r.score = 1 \/ (r.score \in 5..100 /\ r.score % 5 = 0)
            /\ r.warnings = <<>> <=> r.score = 100

\* C22 witness: deductions of exactly 100 points, which leave 0, were
\* replaced by the floor.
C22_ZeroTotalFloored ==
    /\ Returned(result)
    /\ SumPoints(result.warnings, 1) = 100
    /\ result.score = 1

(***************************************************************************)
(* Properties of extract_json_from_response.                               *)
(***************************************************************************)
Parsed == pc = "parsed"

TheText == Expand(text)

AllFail ==
    ~WholeText(TheText).ok /\ ~FencedBlock(TheText).ok /\ ~BraceSpan(TheText).ok

FirstSuccess ==
    IF WholeText(TheText).ok THEN WholeText(TheText).v
    ELSE IF FencedBlock(TheText).ok THEN FencedBlock(TheText).v
    ELSE IF BraceSpan(TheText).ok THEN BraceSpan(TheText).v
    ELSE None

\* A well-formed JSON object.
IsMapping(v) == v # None /\ v[1] = "{" /\ json_loads(v).ok

\* C6 as stated: the result is that of the first strategy that parses, in the
\* order whole text, labelled fence, brace span, and it is null exactly when
\* all three fail.
C6_NullOnlyWhenAllFail ==
    Parsed =>
        /\ extracted.value = FirstSuccess
        /\ extracted.value = None <=> AllFail

\* C6 amended: the result is that of the first strategy that parses, in the
\* order whole text, labelled fence, brace span; it is null exactly when all
\* three fail or the whole text is the JSON literal null.
C6_FirstStrategyWins ==
    Parsed =>
        /\ extracted.value = FirstSuccess
        /\ extracted.value = None <=> (AllFail \/ NoSpace(TheText) = <<"n">>)

\* C6 witness: the text is no document, a brace span comes before a labelled
\* fence holding another object, and the fenced object was returned.
C6_FenceBeatsEarlierSpan ==
    /\ Parsed
    /\ ~WholeText(TheText).ok
    /\ FencedBlock(TheText).ok
    /\ BraceSpan(TheText).ok
    /\ text[1] = "e"
    /\ BraceSpan(TheText).v # FencedBlock(TheText).v
    /\ extracted.value = FencedBlock(TheText).v

\* C7 as stated: the value returned is a mapping or null.
C7_MappingOrNull ==
    Parsed => (extracted.value = None \/ IsMapping(extracted.value))

\* C7 amended: the value returned is a mapping or null, unless the whole text
\* is a JSON document, which is returned whatever its type; the fence and the
\* brace span only ever give a mapping.
C7_MappingUnlessWholeText ==
    Parsed =>
        \/ extracted.value = None
        \/ IsMapping(extracted.value)
        \/ WholeText(TheText).ok /\ extracted.value = NoSpace(TheText)

\* C7 witness: the whole text is the literal true between white space, and
\* true was returned.
C7_ScalarReturned ==
    /\ Parsed
    /\ Len(text) >= 2
    /\ NoSpace(TheText) = <<"t">>
    /\ extracted.value = <<"t">>

(***************************************************************************)
(* Properties of concurrent calls.                                         *)
(***************************************************************************)
Done(c) == calls[c].at = "done"

SameResult(c, d) ==
    /\ calls[c].acc.status = calls[d].acc.status
    /\ calls[c].acc.score = calls[d].acc.score
    /\ calls[c].acc.warnings = calls[d].acc.warnings

Deterministic ==
    \A c, d \in Callers :
        (/\ Done(c) /\ Done(d)
         /\ calls[c].vital_stats = calls[d].vital_stats
         /\ calls[c].gender = calls[d].gender) => SameResult(c, d)

StoreKept == pc = "serving" => HEALTH_STANDARDS' = HEALTH_STANDARDS

InputsKept ==
    \A c \in Callers :
        calls[c].at # "idle" =>
            /\ calls'[c].vital_stats = calls[c].vital_stats
            /\ calls'[c].gender = calls[c].gender

\* C8: after the load no step of any call writes the Standards Store or the
\* mapping it was given, and two finished calls with the same mapping and
\* gender, run one after the other or interleaved, hold the same score and
\* warnings.
C8_NoHiddenState == [][StoreKept /\ InputsKept]_vars /\ []Deterministic

\* C8 witness: two calls with the same non-empty mapping and gender have both
\* finished, with deductions.
C8_TwoEqualCallsDone ==
    /\ Done(1) /\ Done(2)
    /\ calls[1].vital_stats = calls[2].vital_stats
    /\ calls[1].gender = calls[2].gender
    /\ Len(calls[1].vital_stats) = 2
    /\ calls[1].acc.score < 100

(***************************************************************************)
(* Properties of load_health_standards.                                    *)
(***************************************************************************)
\* Entry i of the file declares the normalized alias a.
Declares(i, a) ==
    /\ file.entries[i].aliases.kind = "list"
    /\ \E j \in 1..Len(file.entries[i].aliases.items) :
          /\ file.entries[i].aliases.items[j].t = "str"
          /\ StripLower(file.entries[i].aliases.items[j].s) = a

NormalizedAliases == {"glu", "sugar"}

Conflict ==
    \E a \in NormalizedAliases, i, j \in 1..Len(file.entries) :
        i # j /\ Declares(i, a) /\ Declares(j, a)

\* C13, the file that cannot be read as an object: the load raises.
LoadFailsOnUnreadable ==
    (pc # "import" /\ file.kind # "object") => pc = "crashed"

\* C13: the load completes only for a file that is a JSON object holding the
\* "health_standards" mapping; from a missing or malformed file, a valid
\* document without that mapping included, it raises and the process does
\* not start serving.
C13_LoadFailsOnBadFile ==
    /\ LoadFailsOnUnreadable
    /\ pc = "serving" => (file.kind = "object" /\ file.has_standards)

\* C14, the table alone: after the load every declared alias, trimmed and
\* lower-cased, maps to one key of the store, that of the entry declaring it
\* last, and the table holds nothing else.
AliasesLastWins ==
    pc = "serving" =>
        /\ \A a \in DOMAIN HEALTH_ALIASES :
              /\ HEALTH_STANDARDS[HEALTH_ALIASES[a]].present
              /\ \E i \in 1..Len(file.entries) : Declares(i, a)
        /\ \A a \in NormalizedAliases, i \in 1..Len(file.entries) :
              (Declares(i, a) /\ \A j \in (i + 1)..Len(file.entries) : ~Declares(j, a))
                  => (a \in DOMAIN HEALTH_ALIASES
                      /\ HEALTH_ALIASES[a] = file.entries[i].key)

\* C14: after the load every declared alias maps to the key of the entry
\* declaring it last, and a load that met the same normalized alias in two
\* entries has flagged it: its log holds more than the two lines of a load
\* without conflict.
C14_AliasConflictFlagged ==
    /\ AliasesLastWins
    /\ (pc = "serving" /\ Conflict) =>
          \E k \in 1..Len(log) :
              log[k] \notin {"debug: standards loaded", "debug: alias mapping created"}

(***************************************************************************)
(* Properties of get_numeric_value.                                        *)
(***************************************************************************)
Strs(strings) == {Str(str) : str \in strings}

\* C20: get_numeric_value returns for every input: a number unchanged; for a
\* text, trimmed and lower-cased, 0 for the negative tokens, 1 for "+/-" and
\* "+", 2 for "++" and "+++", 3 for "++++", the decimal any other text
\* spells; and None for everything else, null, lists and mappings included.
C20_NormalizerTotal ==
    /\ pc # "raised"
    /\ pc = "normalized" =>
        /\ raw_value.t = "num" => numeric_value = Some(raw_value.n)
        /\ raw_value \in Strs({"負", "negative", " Negative ", "NEGATIVE", "(-)",
                                " (-) ", "-"}) => numeric_value = Some(0)
        /\ raw_value \in Strs({"+/-", "+"}) => numeric_value = Some(1)
        /\ raw_value \in Strs({"++", "+++", " ++ "}) => numeric_value = Some(2)
        /\ raw_value = Str("++++") => numeric_value = Some(3)
        /\ raw_value \in Strs({"105", " 105 "}) => numeric_value = Some(105)
        /\ raw_value = Str("135") => numeric_value = Some(135)
        /\ raw_value = Str("165") => numeric_value = Some(165)
        /\ raw_value = Str("85") => numeric_value = Some(85)
        /\ raw_value \in Strs({"+++++", "abc", "ABC", "", "positive", "--"})
                          \cup {NoneVal, ListVal, DictVal}
              => numeric_value = Nothing

\* C20 witness: the call on a mapping has returned None.
C20_MappingGivesNone ==
    /\ pc = "normalized"
    /\ raw_value = DictVal
    /\ numeric_value = Nothing

(***************************************************************************)
(* Properties of the upload flow.                                          *)
(***************************************************************************)
Succeeded(triple) == triple.status = "returned" /\ triple # FailureTriple

AnalysisFields == {"vital_stats", "health_score", "health_warnings"}

\* C23, the calls that return: the failure triple comes back exactly for an
\* unsupported file type or an extraction without data, every other return
\* carries the extracted data and a score from 1 to 100.
FailureTripleExact ==
    analysis.status = "returned" =>
        /\ analysis = FailureTriple
              <=> (upload.file_type \notin {"image", "pdf"}
                   \/ upload.gemini_data.kind = "none")
        /\ Succeeded(analysis) =>
              (analysis.data = upload.gemini_data /\ analysis.score \in 1..100)

\* C23, the stored documents: a report holds the three analysis fields
\* together or not at all, a stored score lies between 1 and 100, and the
\* report of the last upload holds them exactly when its analysis succeeded.
ReportsAsClaimed ==
    /\ \A i \in 1..Len(health_reports) :
          /\ AnalysisFields \cap DOMAIN health_reports[i] \in {{}, AnalysisFields}
          /\ "health_score" \in DOMAIN health_reports[i]
                => health_reports[i].health_score \in 1..100
    /\ upload.via = "upload" =>
          ("health_score" \in DOMAIN health_reports[Len(health_reports)]
              <=> Succeeded(analysis))

\* C23: analyze_health_report returns the failure triple exactly when the
\* file type is unsupported or the extraction gave no data and returns the
\* data with a score from 1 to 100 in every other case, and the stored report
\* holds score, warnings and vital_stats only after a success, never the
\* score 0.
C23_UploadOutcome ==
    /\ analysis.status # "raised"
    /\ FailureTripleExact
    /\ ReportsAsClaimed

====
